---- MODULE Spec2Model ----
(***************************************************************************)
(* Model of wc (src/src/main.rs): Args::parse, WordCount::parse,           *)
(* WordCount::print, total, print_output, count and main.                  *)
(*                                                                         *)
(* A string is a sequence of Unicode scalar values (code points, as        *)
(* integers).  A command-line token, a file name, a file's text and a      *)
(* printed row are all strings in this sense.                              *)
(***************************************************************************)
EXTENDS Integers, Sequences, FiniteSets

VARIABLES
    argv,           \* the command-line tokens after the program name
    stdinTerminal,  \* io::stdin().is_terminal()
    pc,             \* where main is: "start", "count", "print", "done",
                    \* "exited"; "wc_parse", "wc_done" for WordCount::parse
    parsed,         \* how Args::parse ended: "none" before it ran
    req,            \* the Args value Args::parse returned
    fileIdx,        \* position of count's loop in req.files
    buffer,         \* the text last read from a source
    results,        \* count's result vector
    opened,         \* every attempt to open or read a source, in order
    total,          \* the total record print_output computed
    output,         \* the rows written to standard output
    message,        \* what else was written: usage text or diagnostics
    exitCode        \* the process exit status, -1 while running

vars == <<argv, stdinTerminal, pc, parsed, req, fileIdx, buffer, results,
          opened, total, output, message, exitCode>>

----------------------------------------------------------------------------
(* Bounds *)

MaxArgs == 3      \* longest command line explored
MaxLen == 3       \* longest text explored by the counting specification

----------------------------------------------------------------------------
(* Characters the source names *)

DASH == 45        \* '-'
CH_c == 99        \* 'c'
CH_m == 109       \* 'm'
CH_l == 108       \* 'l'
CH_w == 119       \* 'w'
LF == 10          \* '\n'
CR == 13          \* '\r'
SPACE == 32       \* ' '
DIGIT0 == 48      \* '0'
PanicCode == 101  \* exit status of a Rust process that panicked

OptBytes == <<45, 45, 98, 121, 116, 101, 115>>    \* "--bytes"
OptChars == <<45, 45, 99, 104, 97, 114, 115>>     \* "--chars"
OptLines == <<45, 45, 108, 105, 110, 101, 115>>   \* "--lines"
OptWords == <<45, 45, 119, 111, 114, 100, 115>>   \* "--words"
OptHelp == <<45, 45, 104, 101, 108, 112>>         \* "--help"
TotalName == <<116, 111, 116, 97, 108>>           \* "total"

\* "wc: "
ErrPrefix == <<119, 99, 58, 32>>
\* ": No such file or directory"
ErrSuffix == <<58, 32, 78, 111, 32, 115, 117, 99, 104, 32, 102, 105, 108,
               101, 32, 111, 114, 32, 100, 105, 114, 101, 99, 116, 111,
               114, 121>>

----------------------------------------------------------------------------
(* Inputs explored *)

\* Command-line tokens: short flags and clusters, long options, a bare
\* dash, a one-byte name, the empty token, and three file operands, one of
\* them a single character of two bytes.
TokenSet ==
    { <<45, 108>>,              \* "-l"
      <<45, 119, 99>>,          \* "-wc"
      <<45, 109>>,              \* "-m"
      <<45, 108, 120>>,         \* "-lx"
      OptBytes,
      OptLines,
      OptHelp,
      <<45, 45, 102, 111, 111>>,\* "--foo"
      <<45>>,                   \* "-"
      <<97>>,                   \* "a"
      <<>>,                     \* ""
      <<233>>,                  \* "é"
      <<102, 49>>,              \* "f1"
      <<102, 50>> }             \* "f2"

\* Texts a source may hold in the whole-program specification.
SampleTexts ==
    { <<>>,
      <<97, 32, 98, 10, 99, 10>>,   \* "a b\nc\n"
      <<233, 32, 120>> }            \* "é x"

\* Characters of the texts explored by the counting specification:
\* 'a', ' ', '\n', '\r', 'é' (2 bytes), EM SPACE (3 bytes), U+1F600 (4 bytes)
Alphabet == {97, 32, 10, 13, 233, 8195, 128512}

RECURSIVE SeqsUpTo(_, _)
SeqsUpTo(S, n) ==
    IF n = 0 THEN { <<>> }
    ELSE LET shorter == SeqsUpTo(S, n - 1)
         IN  shorter \cup { Append(s, x) : s \in shorter, x \in S }

Texts == SeqsUpTo(Alphabet, MaxLen)

----------------------------------------------------------------------------
(* Strings *)

StartsWith(s, p) == Len(s) >= Len(p) /\ SubSeq(s, 1, Len(p)) = p

\* Number of bytes of one scalar value in UTF-8.
Utf8LenAscii(cp) == 1

Utf8Len(cp) ==
    IF cp < 128 THEN 1
    ELSE IF cp < 2048 THEN 2
    ELSE IF cp < 65536 THEN 3
    ELSE 4

\* str::len: the length of the string in bytes.
RECURSIVE ByteLen(_)
ByteLen(s) == IF s = <<>> THEN 0 ELSE Utf8Len(Head(s)) + ByteLen(Tail(s))

\* str::chars().count()
CharCount(s) == Len(s)

\* char::is_whitespace: the Unicode White_Space property.
IsWhitespace(cp) ==
    \/ cp \in 9..13
    \/ cp \in {32, 133, 160, 5760, 8232, 8233, 8239, 8287, 12288}
    \/ cp \in 8192..8202

\* str::lines().count(): the text is cut after every '\n'; what follows the
\* last '\n' is a line only when it is not empty.  (A '\r' before the '\n'
\* is stripped from the line and changes no count.)
RECURSIVE LinesFrom(_, _)
LinesFrom(s, pending) ==
    IF s = <<>> THEN (IF pending THEN 1 ELSE 0)
    ELSE IF Head(s) = LF THEN 1 + LinesFrom(Tail(s), FALSE)
    ELSE LinesFrom(Tail(s), TRUE)

LinesCountSplit(s) == Len(SelectSeq(s, LAMBDA c : c = LF)) + 1

LinesCount(s) == LinesFrom(s, FALSE)

\* str::split(char::is_whitespace): the pieces between whitespace
\* characters, empty pieces included.
RECURSIVE SplitFrom(_, _)
SplitFrom(s, piece) ==
    IF s = <<>> THEN << piece >>
    ELSE IF IsWhitespace(Head(s)) THEN << piece >> \o SplitFrom(Tail(s), <<>>)
    ELSE SplitFrom(Tail(s), Append(piece, Head(s)))

SplitWhitespaceKeepEmpty(s) == SplitFrom(s, <<>>)

\* str::split_whitespace(): the non-empty pieces.
SplitWhitespace(s) == SelectSeq(SplitFrom(s, <<>>), LAMBDA p : p # <<>>)

WordsCount(s) == Len(SplitWhitespace(s))

----------------------------------------------------------------------------
(* Args::parse *)

IsFileOperand(arg) ==
    /\ ByteLen(arg) > 1
    /\ ~StartsWith(arg, <<DASH>>)
    /\ ~StartsWith(arg, <<DASH, DASH>>)

FileOperands(args) == SelectSeq(args, IsFileOperand)

OptionTokens(args) == SelectSeq(args, LAMBDA arg : ~IsFileOperand(arg))

\* The four flags before any option is processed, and the running state of
\* the for_each loops: outcome is "run" until a branch leaves the process.
NoFlags ==
    [bytes |-> FALSE, chars |-> FALSE, lines |-> FALSE, words |-> FALSE,
     outcome |-> "run", culprit |-> <<>>]

DefaultFlags == [NoFlags EXCEPT !.bytes = TRUE, !.lines = TRUE, !.words = TRUE]

\* One character of a short-option cluster.
ShortFlagSwapped(st, opt) ==
    CASE opt = CH_c -> [st EXCEPT !.chars = TRUE]
      [] opt = CH_m -> [st EXCEPT !.bytes = TRUE]
      [] opt = CH_l -> [st EXCEPT !.lines = TRUE]
      [] opt = CH_w -> [st EXCEPT !.words = TRUE]
      [] OTHER -> [st EXCEPT !.outcome = "error", !.culprit = <<opt>>]

ShortFlag(st, opt) ==
    CASE opt = CH_c -> [st EXCEPT !.bytes = TRUE]
      [] opt = CH_m -> [st EXCEPT !.chars = TRUE]
      [] opt = CH_l -> [st EXCEPT !.lines = TRUE]
      [] opt = CH_w -> [st EXCEPT !.words = TRUE]
      [] OTHER -> [st EXCEPT !.outcome = "error", !.culprit = <<opt>>]

RECURSIVE ShortCluster(_, _)
ShortCluster(st, cluster) ==
    IF cluster = <<>> \/ st.outcome # "run" THEN st
    ELSE ShortCluster(ShortFlag(st, Head(cluster)), Tail(cluster))

LongOption(st, option) ==
    CASE option = OptBytes -> [st EXCEPT !.bytes = TRUE]
      [] option = OptChars -> [st EXCEPT !.chars = TRUE]
      [] option = OptLines -> [st EXCEPT !.lines = TRUE]
      [] option = OptWords -> [st EXCEPT !.words = TRUE]
      [] option = OptHelp -> [st EXCEPT !.outcome = "help"]
      [] OTHER -> [st EXCEPT !.outcome = "error", !.culprit = option]

\* One option token.  strip_prefix('-') is None for a token that does not
\* start with '-', and unwrap() of None panics.
ProcessOption(st, option) ==
    IF StartsWith(option, <<DASH, DASH>>) THEN LongOption(st, option)
    ELSE IF StartsWith(option, <<DASH>>) THEN ShortCluster(st, Tail(option))
    ELSE [st EXCEPT !.outcome = "panic", !.culprit = option]

RECURSIVE ForEachOption(_, _)
ForEachOption(st, options) ==
    IF options = <<>> \/ st.outcome # "run" THEN st
    ELSE ForEachOption(ProcessOption(st, Head(options)), Tail(options))

ArgsParse(args) ==
    LET files == FileOperands(args)
        options == OptionTokens(args)
        st == IF options = <<>> THEN DefaultFlags
              ELSE ForEachOption(NoFlags, options)
    IN  IF st.outcome = "run"
        THEN [outcome |-> "request", culprit |-> <<>>,
              req |-> [files |-> files, bytes |-> st.bytes,
                       chars |-> st.chars, lines |-> st.lines,
                       words |-> st.words]]
        ELSE [outcome |-> st.outcome, culprit |-> st.culprit]

----------------------------------------------------------------------------
(* WordCount *)

WordCountParse(filename, input, args) ==
    [ok |-> TRUE,
     filename |-> filename,
     bytes |-> IF args.bytes THEN ByteLen(input) ELSE 0,
     chars |-> IF args.chars THEN CharCount(input) ELSE 0,
     lines |-> IF args.lines THEN LinesCount(input) ELSE 0,
     words |-> IF args.words THEN WordsCount(input) ELSE 0]

\* usize::to_string: the decimal digits.
RECURSIVE UsizeToString(_)
UsizeToString(n) ==
    IF n < 10 THEN << DIGIT0 + n >>
    ELSE Append(UsizeToString(n \div 10), DIGIT0 + (n % 10))

\* "{:>offset$}": spaces are put before a string shorter than offset; a
\* longer one is written whole.
PadRight(s, offset) ==
    IF Len(s) >= offset THEN s
    ELSE s \o [i \in 1..(offset - Len(s)) |-> SPACE]

PadLeft(s, offset) ==
    IF Len(s) >= offset THEN s
    ELSE [i \in 1..(offset - Len(s)) |-> SPACE] \o s

Field(value, offset) == Append(PadLeft(UsizeToString(value), offset), SPACE)

WordCountPrint(wc, offset, args) ==
    (IF args.lines THEN Field(wc.lines, offset) ELSE <<>>)
    \o (IF args.words THEN Field(wc.words, offset) ELSE <<>>)
    \o (IF args.chars THEN Field(wc.chars, offset) ELSE <<>>)
    \o (IF args.bytes THEN Field(wc.bytes, offset) ELSE <<>>)
    \o wc.filename

----------------------------------------------------------------------------
(* total and print_output *)

Max(a, b) == IF a >= b THEN a ELSE b

ZeroTotal ==
    [ok |-> TRUE, filename |-> TotalName,
     bytes |-> 0, chars |-> 0, lines |-> 0, words |-> 0]

\* A total that also counts a failure record as one line.
RECURSIVE TotalCountingFailures(_)
TotalCountingFailures(rs) ==
    IF rs = <<>> THEN ZeroTotal
    ELSE LET rest == TotalCountingFailures(SubSeq(rs, 1, Len(rs) - 1))
             count == rs[Len(rs)]
         IN  IF count.ok
             THEN [rest EXCEPT !.bytes = @ + count.bytes,
                               !.chars = @ + count.chars,
                               !.lines = @ + count.lines,
                               !.words = @ + count.words]
             ELSE [rest EXCEPT !.lines = @ + 1]

RECURSIVE Total(_)
Total(rs) ==
    IF rs = <<>> THEN ZeroTotal
    ELSE LET rest == Total(SubSeq(rs, 1, Len(rs) - 1))
             count == rs[Len(rs)]
         IN  IF count.ok
             THEN [rest EXCEPT !.bytes = @ + count.bytes,
                               !.chars = @ + count.chars,
                               !.lines = @ + count.lines,
                               !.words = @ + count.words]
             ELSE rest

Offset(t) ==
    Len(UsizeToString(Max(Max(Max(t.bytes, t.chars), t.lines), t.words)))

PrintRow(res, offset, args) ==
    IF res.ok THEN WordCountPrint(res, offset, args) ELSE res.msg

PrintedRows(rs, args) ==
    LET t == Total(rs)
        offset == Offset(t)
        all == IF Len(rs) > 1 THEN Append(rs, t) ELSE rs
    IN  [i \in 1..Len(all) |-> PrintRow(all[i], offset, args)]

----------------------------------------------------------------------------
(* The program: main, and count's loop one iteration at a time *)

NoArgs == [files |-> <<>>, bytes |-> FALSE, chars |-> FALSE,
           lines |-> FALSE, words |-> FALSE]

NoMessage == [kind |-> "none", culprit |-> <<>>]

Init ==
    /\ argv \in SeqsUpTo(TokenSet, MaxArgs)
    /\ stdinTerminal \in BOOLEAN
    /\ pc = "start"
    /\ parsed = "none"
    /\ req = NoArgs
    /\ fileIdx = 1
    /\ buffer = <<>>
    /\ results = <<>>
    /\ opened = <<>>
    /\ total = ZeroTotal
    /\ output = <<>>
    /\ message = NoMessage
    /\ exitCode = -1

\* main, line 221: Args::parse returns the request, or leaves the process
\* with the usage text (0), a diagnostic (1) or a panic.
Parse ==
    /\ pc = "start"
    /\ LET r == ArgsParse(argv)
       IN  /\ parsed' = r.outcome
           /\ CASE r.outcome = "request" ->
                     /\ req' = r.req
                     /\ pc' = "count"
                     /\ UNCHANGED <<message, exitCode>>
                [] r.outcome = "help" ->
                     /\ message' = [kind |-> "usage", culprit |-> <<>>]
                     /\ exitCode' = 0
                     /\ pc' = "exited"
                     /\ UNCHANGED req
                [] r.outcome = "error" ->
                     /\ message' = [kind |-> "error", culprit |-> r.culprit]
                     /\ exitCode' = 1
                     /\ pc' = "exited"
                     /\ UNCHANGED req
                [] OTHER ->
                     /\ message' = [kind |-> "panic", culprit |-> r.culprit]
                     /\ exitCode' = PanicCode
                     /\ pc' = "exited"
                     /\ UNCHANGED req
    /\ UNCHANGED <<argv, stdinTerminal, fileIdx, buffer, results, opened,
                   total, output>>

ReadsStdin == req.files = <<>> /\ ~stdinTerminal

\* count, lines 192-199: standard input is read whole as one source.
CountStdin ==
    /\ pc = "count"
    /\ ReadsStdin
    /\ \E text \in SampleTexts :
          /\ buffer' = text
          /\ results' = Append(results, WordCountParse(<<>>, text, req))
    /\ opened' = Append(opened, [name |-> <<>>, ok |-> TRUE])
    /\ pc' = "print"
    /\ UNCHANGED <<argv, stdinTerminal, parsed, req, fileIdx, total, output,
                   message, exitCode>>

\* count, line 196: read_to_string fails (input that is not UTF-8) and
\* unwrap panics.
CountStdinReadFail ==
    /\ pc = "count"
    /\ ReadsStdin
    /\ opened' = Append(opened, [name |-> <<>>, ok |-> TRUE])
    /\ message' = [kind |-> "panic", culprit |-> <<>>]
    /\ exitCode' = PanicCode
    /\ pc' = "exited"
    /\ UNCHANGED <<argv, stdinTerminal, parsed, req, fileIdx, buffer,
                   results, total, output>>

InFileLoop == pc = "count" /\ ~ReadsStdin /\ fileIdx <= Len(req.files)

\* count, lines 202-207, with the loop ended at the first file that does
\* not open.
CountOpenFailBreak ==
    /\ InFileLoop
    /\ LET file == req.files[fileIdx]
       IN  /\ opened' = Append(opened, [name |-> file, ok |-> FALSE])
           /\ results' = Append(results,
                  [ok |-> FALSE, msg |-> ErrPrefix \o file \o ErrSuffix])
    /\ fileIdx' = Len(req.files) + 1
    /\ UNCHANGED <<argv, stdinTerminal, pc, parsed, req, buffer, total,
                   output, message, exitCode>>

\* count, lines 202-207: the file does not open; a failure record is pushed
\* and the loop continues.
CountOpenFail ==
    /\ InFileLoop
    /\ LET file == req.files[fileIdx]
       IN  /\ opened' = Append(opened, [name |-> file, ok |-> FALSE])
           /\ results' = Append(results,
                  [ok |-> FALSE, msg |-> ErrPrefix \o file \o ErrSuffix])
    /\ fileIdx' = fileIdx + 1
    /\ UNCHANGED <<argv, stdinTerminal, pc, parsed, req, buffer, total,
                   output, message, exitCode>>

\* count, lines 202-213: the file opens and is read whole.
CountFile ==
    /\ InFileLoop
    /\ LET file == req.files[fileIdx]
       IN  /\ opened' = Append(opened, [name |-> file, ok |-> TRUE])
           /\ \E text \in SampleTexts :
                 /\ buffer' = text
                 /\ results' = Append(results, WordCountParse(file, text, req))
    /\ fileIdx' = fileIdx + 1
    /\ UNCHANGED <<argv, stdinTerminal, pc, parsed, req, total, output,
                   message, exitCode>>

\* count, line 210: the file opens but read_to_string fails, and expect
\* panics.
CountReadFail ==
    /\ InFileLoop
    /\ opened' = Append(opened, [name |-> req.files[fileIdx], ok |-> TRUE])
    /\ message' = [kind |-> "panic", culprit |-> req.files[fileIdx]]
    /\ exitCode' = PanicCode
    /\ pc' = "exited"
    /\ UNCHANGED <<argv, stdinTerminal, parsed, req, fileIdx, buffer,
                   results, total, output>>

\* count, line 216: the loop is over (at once when there is no file and
\* standard input is a terminal).
CountReturn ==
    /\ pc = "count"
    /\ ~ReadsStdin
    /\ fileIdx > Len(req.files)
    /\ pc' = "print"
    /\ UNCHANGED <<argv, stdinTerminal, parsed, req, fileIdx, buffer,
                   results, opened, total, output, message, exitCode>>

\* main, line 223: print_output, then main returns.
PrintOutput ==
    /\ pc = "print"
    /\ total' = Total(results)
    /\ output' = PrintedRows(results, req)
    /\ exitCode' = 0
    /\ pc' = "done"
    /\ UNCHANGED <<argv, stdinTerminal, parsed, req, fileIdx, buffer,
                   results, opened, message>>

Next ==
    \/ Parse
    \/ CountStdin
    \/ CountStdinReadFail
    \/ CountOpenFail
    \/ CountFile
    \/ CountReadFail
    \/ CountReturn
    \/ PrintOutput

Spec == Init /\ [][Next]_vars

----------------------------------------------------------------------------
(* WordCount::parse on its own: every text up to MaxLen, every request *)

InitCount ==
    /\ argv = <<>>
    /\ stdinTerminal = FALSE
    /\ pc = "wc_parse"
    /\ parsed = "request"
    /\ req \in [files : {<<>>}, bytes : BOOLEAN, chars : BOOLEAN,
                lines : BOOLEAN, words : BOOLEAN]
    /\ fileIdx = 1
    /\ buffer \in Texts
    /\ results = <<>>
    /\ opened = <<>>
    /\ total = ZeroTotal
    /\ output = <<>>
    /\ message = NoMessage
    /\ exitCode = -1

ApplyWordCountParse ==
    /\ pc = "wc_parse"
    /\ results' = <<WordCountParse(<<>>, buffer, req)>>
    /\ pc' = "wc_done"
    /\ UNCHANGED <<argv, stdinTerminal, parsed, req, fileIdx, buffer,
                   opened, total, output, message, exitCode>>

NextCount == ApplyWordCountParse

SpecCount == InitCount /\ [][NextCount]_vars

----------------------------------------------------------------------------
(* Vocabulary of the properties *)

ParseDone == pc \in {"count", "print", "done", "exited"}

\* An option token is any token that is not a file operand: a token of
\* length at most 1 (in bytes, as the program measures it), or one that
\* starts with '-'.
IsOptionToken(tok) == ByteLen(tok) <= 1 \/ tok[1] = DASH

IsLong(tok) == Len(tok) >= 2 /\ tok[1] = DASH /\ tok[2] = DASH

IsCluster(tok) == Len(tok) >= 1 /\ tok[1] = DASH /\ ~IsLong(tok)

\* The token names the metric whose long option is long and whose short
\* flag is ch.
Names(tok, long, ch) ==
    \/ tok = long
    \/ IsCluster(tok) /\ \E i \in 2..Len(tok) : tok[i] = ch

NamedSomewhere(long, ch) == \E i \in DOMAIN argv : Names(argv[i], long, ch)

IsBadOption(tok) ==
    \/ IsLong(tok) /\ tok \notin {OptBytes, OptChars, OptLines, OptWords, OptHelp}
    \/ IsCluster(tok) /\ \E i \in 2..Len(tok) : tok[i] \notin {CH_c, CH_m, CH_l, CH_w}

RemoveAt(s, i) == SubSeq(s, 1, i - 1) \o SubSeq(s, i + 1, Len(s))

----------------------------------------------------------------------------
(* Args::parse *)

\* C1: when Args::parse returns a Request, the enabled metrics are bytes,
\* lines and words (not characters) if the command line has no option
\* token; otherwise a metric is enabled exactly when some option token
\* names it, whatever the order and repetition of the tokens.
C1_MetricSet ==
    (ParseDone /\ parsed = "request") =>
        IF \A i \in DOMAIN argv : ~IsOptionToken(argv[i])
        THEN req.bytes /\ req.lines /\ req.words /\ ~req.chars
        ELSE /\ req.bytes = NamedSomewhere(OptBytes, CH_c)
             /\ req.chars = NamedSomewhere(OptChars, CH_m)
             /\ req.lines = NamedSomewhere(OptLines, CH_l)
             /\ req.words = NamedSomewhere(OptWords, CH_w)

\* "-wc" given before "-l", bytes named twice: lines, words and bytes are
\* enabled and characters are not.
C1_Witness ==
    /\ ParseDone /\ parsed = "request"
    /\ Len(argv) = 3
    /\ argv[1] = <<DASH, CH_w, CH_c>>
    /\ argv[2] = <<DASH, CH_l>>
    /\ argv[3] = OptBytes
    /\ req.bytes /\ req.lines /\ req.words /\ ~req.chars

\* C2: a command line holding an unrecognized long option or a cluster with
\* a character other than c, m, l, w ends the process with exit code 1,
\* wherever the token stands, before any source is opened and before any
\* result is produced or printed.
C2_BadOptionExitsOne ==
    (ParseDone /\ \E i \in DOMAIN argv : IsBadOption(argv[i])) =>
        /\ pc = "exited"
        /\ exitCode = 1
        /\ opened = <<>>
        /\ results = <<>>
        /\ output = <<>>

\* C9: a bare "-" is ignored: the Request returned for a command line with
\* a bare "-" is the Request returned for the same command line without it.
C9_BareDashIgnored ==
    (ParseDone /\ parsed = "request") =>
        \A i \in DOMAIN argv :
            argv[i] = <<DASH>> =>
                LET without == ArgsParse(RemoveAt(argv, i))
                IN  without.outcome = "request" /\ without.req = req

\* C10: Args::parse ends in one of three ways: a Request is returned, the
\* process exits with 0 after --help, or it exits with 1 with a parser
\* diagnostic.
C10_ParseTotal ==
    ParseDone =>
        \/ parsed = "request"
        \/ parsed = "help" /\ pc = "exited" /\ exitCode = 0
              /\ message.kind = "usage"
        \/ parsed = "error" /\ pc = "exited" /\ exitCode = 1
              /\ message.kind = "error"

----------------------------------------------------------------------------
(* count *)

NoSuchFile(name) ==
    <<119, 99, 58, 32>> \o name
    \o <<58, 32, 78, 111, 32, 115, 117, 99, 104, 32, 102, 105, 108, 101, 32,
         111, 114, 32, 100, 105, 114, 101, 99, 116, 111, 114, 121>>

\* C3: with a non-empty file list and no read failure, count produces one
\* result per file operand, in the operands' order: a success record named
\* after the file when it opened, the record "wc: <name>: No such file or
\* directory" when it did not; the files after a failed open still get
\* their results, and the process ends with exit code 0.
C3_OneResultPerFile ==
    (pc \in {"count", "print", "done"} /\ req.files # <<>>) =>
        /\ req.files = SelectSeq(argv, LAMBDA tok : ~IsOptionToken(tok))
        /\ Len(results) = fileIdx - 1
        /\ Len(opened) = Len(results)
        /\ pc \in {"print", "done"} => Len(results) = Len(req.files)
        /\ pc = "done" => exitCode = 0
        /\ \A i \in 1..Len(results) :
              /\ opened[i].name = req.files[i]
              /\ results[i].ok = opened[i].ok
              /\ results[i].ok => results[i].filename = req.files[i]
              /\ ~results[i].ok => results[i].msg = NoSuchFile(req.files[i])

\* Three files; the first does not open, the two after it are counted.
C3_Witness ==
    /\ pc = "done" /\ exitCode = 0
    /\ Len(req.files) = 3 /\ Len(results) = 3
    /\ ~results[1].ok /\ results[2].ok /\ results[3].ok
    /\ results[3].bytes > 0

----------------------------------------------------------------------------
(* total and print_output *)

OkIndices == {i \in DOMAIN results : results[i].ok}

RECURSIVE SumOver(_, _)
SumOver(I, f) ==
    IF I = {} THEN 0
    ELSE LET i == CHOOSE j \in I : TRUE
         IN  results[i][f] + SumOver(I \ {i}, f)

\* The number of sources the request asks for.
NumSources ==
    IF req.files # <<>> THEN Len(req.files)
    ELSE IF stdinTerminal THEN 0 ELSE 1

EndsWith(s, t) ==
    Len(s) >= Len(t) /\ SubSeq(s, Len(s) - Len(t) + 1, Len(s)) = t

\* C4: the total's four fields are the sums of the fields of the successful
\* results only, and the row named "total" is printed, last, exactly when
\* more than one source was requested.
C4_TotalRow ==
    pc = "done" =>
        /\ total.lines = SumOver(OkIndices, "lines")
        /\ total.words = SumOver(OkIndices, "words")
        /\ total.chars = SumOver(OkIndices, "chars")
        /\ total.bytes = SumOver(OkIndices, "bytes")
        /\ IF NumSources > 1
           THEN /\ Len(output) = NumSources + 1
                /\ EndsWith(output[Len(output)], TotalName)
           ELSE /\ Len(output) = NumSources
                /\ \A i \in DOMAIN output : ~EndsWith(output[i], TotalName)

\* Three sources, one of which did not open; the total row is printed and
\* the total is not zero.
C4_Witness ==
    /\ pc = "done"
    /\ Len(results) = 3
    /\ \E i \in DOMAIN results : ~results[i].ok
    /\ Cardinality(OkIndices) = 2
    /\ total.bytes > 0 /\ total.lines > 0
    /\ Len(output) = 4

\* The smallest number of decimal digits that writes n.
RECURSIVE DigitLen(_)
DigitLen(n) == IF n < 10 THEN 1 ELSE 1 + DigitLen(n \div 10)

IsDigit(c) == c \in DIGIT0..(DIGIT0 + 9)

\* The value of a string of decimal digits.
RECURSIVE DecValue(_)
DecValue(ds) ==
    IF ds = <<>> THEN 0
    ELSE 10 * DecValue(SubSeq(ds, 1, Len(ds) - 1)) + (ds[Len(ds)] - DIGIT0)

\* field is value written in decimal, without leading zeros, after spaces.
RightAligned(field, value) ==
    \E d \in 1..Len(field) :
        LET digits == SubSeq(field, Len(field) - d + 1, Len(field))
        IN  /\ \A i \in 1..(Len(field) - d) : field[i] = SPACE
            /\ \A i \in 1..d : IsDigit(digits[i])
            /\ d > 1 => digits[1] # DIGIT0
            /\ DecValue(digits) = value

\* The values of the enabled metrics of a record, in the fixed order.
EnabledValues(rec) ==
    (IF req.lines THEN <<rec.lines>> ELSE <<>>)
    \o (IF req.words THEN <<rec.words>> ELSE <<>>)
    \o (IF req.chars THEN <<rec.chars>> ELSE <<>>)
    \o (IF req.bytes THEN <<rec.bytes>> ELSE <<>>)

\* row is the enabled values of rec, each right-aligned in w columns and
\* followed by one space, then the name.
RowShows(row, rec, w) ==
    LET vals == EnabledValues(rec)
        k == Len(vals)
    IN  /\ Len(row) = k * (w + 1) + Len(rec.filename)
        /\ SubSeq(row, k * (w + 1) + 1, Len(row)) = rec.filename
        /\ \A j \in 1..k :
              /\ row[j * (w + 1)] = SPACE
              /\ RightAligned(SubSeq(row, (j - 1) * (w + 1) + 1,
                                     j * (w + 1) - 1), vals[j])

SumsRecord ==
    [ok |-> TRUE, filename |-> TotalName,
     lines |-> SumOver(OkIndices, "lines"),
     words |-> SumOver(OkIndices, "words"),
     chars |-> SumOver(OkIndices, "chars"),
     bytes |-> SumOver(OkIndices, "bytes")]

\* C8: every success row, the total row included, is the values of exactly
\* the enabled metrics in the order lines, words, characters, bytes, each
\* right-aligned in W columns and followed by one space, then the source
\* name; W is the number of decimal digits of the largest of the four sums
\* over the successful results; a failure row is its message alone.
C8_RowLayout ==
    pc = "done" =>
        LET sums == SumsRecord
            W == DigitLen(Max(Max(sums.lines, sums.words),
                              Max(sums.chars, sums.bytes)))
        IN  /\ Len(output) >= Len(results)
            /\ \A i \in DOMAIN results :
                  IF results[i].ok
                  THEN RowShows(output[i], results[i], W)
                  ELSE output[i] = results[i].msg
            /\ Len(output) > Len(results) =>
                  RowShows(output[Len(output)], sums, W)

\* Options given as bytes before lines; two files of 6 bytes each, so that W
\* is 2 and the one-digit values are padded.
C8_Witness ==
    /\ pc = "done"
    /\ Len(argv) = 3 /\ argv[1] = <<DASH, CH_w, CH_c>>
    /\ Len(results) = 2 /\ results[1].ok /\ results[2].ok
    /\ results[1].bytes = 6 /\ total.bytes = 12
    /\ Len(output) = 3
    /\ output[1] = <<SPACE, 51, SPACE, SPACE, 54, SPACE>> \o req.files[1]

----------------------------------------------------------------------------
(* WordCount::parse *)

Counted == pc = "wc_done"

IsAscii(s) == \A i \in DOMAIN s : s[i] < 128

BytesVsChars ==
    /\ results[1].bytes >= results[1].chars
    /\ (results[1].bytes = results[1].chars) <=> IsAscii(buffer)

\* C5 as stated: for every text and every Request, the record's byte count
\* is at least its character count, with equality exactly for pure ASCII
\* text.
C5_BytesVsCharsAnyRequest == Counted => BytesVsChars

\* C5: for every text and every Request that enables both the bytes and the
\* characters metric, the record's byte count is at least its character
\* count, with equality exactly for pure ASCII text.
C5_BytesVsChars == (Counted /\ req.bytes /\ req.chars) => BytesVsChars

\* A text with a two-byte and a four-byte character: 3 characters, 7 bytes.
C5_Witness ==
    /\ Counted /\ req.bytes /\ req.chars
    /\ buffer = <<233, 97, 128512>>
    /\ results[1].chars = 3 /\ results[1].bytes = 7

Terminators(s) == Cardinality({i \in DOMAIN s : s[i] = LF})

Runs(s) ==
    Cardinality({i \in DOMAIN s :
        /\ ~IsWhitespace(s[i])
        /\ i = 1 \/ IsWhitespace(s[i - 1])})

InsertAt(s, i, c) == SubSeq(s, 1, i) \o <<c>> \o SubSeq(s, i + 1, Len(s))

\* After position i of s there is no word to split: i is the start or the
\* end of s, or one of the characters around it is whitespace.
OutsideWord(s, i) ==
    \/ i = 0
    \/ i = Len(s)
    \/ IsWhitespace(s[i])
    \/ IsWhitespace(s[i + 1])

\* C7: with words enabled, the word count is the number of maximal runs of
\* non-whitespace characters, and it is the word count of every text made
\* from the input by inserting one whitespace character between two words,
\* before the first word or after the last.
C7_WordCount ==
    (Counted /\ req.words) =>
        /\ results[1].words = Runs(buffer)
        /\ \A i \in 0..Len(buffer) : \A c \in Alphabet :
              (IsWhitespace(c) /\ OutsideWord(buffer, i)) =>
                  WordCountParse(<<>>, InsertAt(buffer, i, c), req).words
                      = results[1].words

\* Two words separated by one whitespace character.
C7_Witness ==
    /\ Counted /\ req.words
    /\ buffer = <<97, 8195, 233>>
    /\ results[1].words = 2

====
